---------------------------- MODULE Spec2Model ----------------------------
(***************************************************************************)
(* A model of aeromancy: the versioned S3 client with its local cache      *)
(* (s3.py), the artifact store in front of it (artifacts.py,               *)
(* fake_tracker.py), artifact name resolution (artifacts.py) and the       *)
(* action runner on top of pydoit (action_runner.py, action.py).           *)
(*                                                                         *)
(* Eight specifications share the module: Spec (the S3 client and its      *)
(* cache, two processes on one cache root), SpecSave (the same two         *)
(* processes with the steps of _save_checksums apart), SpecFetch (one      *)
(* client fetching versioned and unversioned objects), SpecFake (the       *)
(* FakeTracker and its                                                     *)
(* cache), SpecNames (artifact name resolution with overrides), SpecStruct *)
(* (WandbArtifactName: construction, parse, str, matches), SpecJoin        *)
(* (S3Object.joinpath on keys as strings) and SpecRun                      *)
(* (ActionRunner.run_actions on pydoit).  A specification leaves the       *)
(* variables of the other subsystems at their initial values; SpecStruct   *)
(* and SpecJoin keep the call they model in nameState.                     *)
(***************************************************************************)
EXTENDS Integers, Sequences, FiniteSets, TLC

VARIABLES
    remote,     \* the S3 bucket: for each S3Object the contents of its versions, oldest first
    files,      \* the cache directory below the bucket directories: path -> [data, ro]
    diskIndex,  \* the contents of <cache_root>/checksums.json (a list of CacheEntry)
    mem,        \* per process: Cache._cacheentry_by_checksum, in insertion order
    pc,         \* per process: where it is inside declare_output / put / fetch
    loc,        \* per process: the locals of the call in progress
    lastPut,    \* per process: the last put that returned, while nothing else has touched its object
    last,       \* the outcome of the call that returned (or raised) in the latest step, if any
    logged,     \* artifacts registered with the tracking collaborator (log_artifact / artifact mapping)
    nops,       \* number of calls begun so far (bounds the model)
    nameState,  \* a call of WandbArtifactName.resolve_artifact_name (or of a pure method): its inputs and its outcome
    runState    \* a call of ActionRunner.run_actions: its inputs and the progress of the run

storeVars == <<remote, files, diskIndex, mem, pc, loc, lastPut, last, logged, nops>>
nameVars == <<nameState>>
runVars == <<runState>>
vars == <<storeVars, nameVars, runVars>>

---------------------------------------------------------------------------
(* Bounds of the model. *)

\* calls (put, fetch, repair, a rejected declare_output, ...) begun in one
\* behaviour; it also bounds the versions of an object and the files of one
\* declare_output, each of which takes a put
MaxOps == 3

Procs == {1, 2}
Contents == {"A", "B"}

NoVer == "none"
NoData == "nodata"

\* remote version ids are opaque tokens; the i-th version of an object is VersionName[i]
VersionName == <<"v1", "v2", "v3", "v4", "v5", "v6", "v7", "v8", "v9">>
FAKE_VERSION == "FAKE_VERSION"

Bucket == "bkt"
Keys == { <<"k">>, <<"d", "k">> }

\* S3Object(bucket, key); a VersionedS3Object is the same with a version_id
S3Object(bucket, key) == [bucket |-> bucket, key |-> key, ver |-> NoVer]
VersionedS3Object(bucket, key, version_id) == [bucket |-> bucket, key |-> key, ver |-> version_id]
IsVersioned(o) == o.ver # NoVer
Unversion(o) == S3Object(o.bucket, o.key)

Refs == { S3Object(Bucket, k) : k \in Keys }
NoObj == S3Object("nobucket", <<>>)

---------------------------------------------------------------------------
(* Orderings used by sorted() in the code: strings compare lexicographically; the
   tokens of the model are ranked in that order. *)

Tokens == <<"A", "B", "FAKE_VERSION", "S3Object", "VersionedS3Object",
            "bkt", "d", "f", "g", "hA", "hB", "k", "none",
            "v1", "v2", "v3", "v4", "v5", "v6", "v7", "v8", "v9">>
TokRank(t) == CHOOSE i \in 1..Len(Tokens) : Tokens[i] = t

RECURSIVE SeqLess(_, _)
\* lexicographic order of two token sequences (Path parts, key strings)
SeqLess(s, t) ==
    IF t = <<>> THEN FALSE
    ELSE IF s = <<>> THEN TRUE
    ELSE IF TokRank(Head(s)) # TokRank(Head(t)) THEN TokRank(Head(s)) < TokRank(Head(t))
    ELSE SeqLess(Tail(s), Tail(t))

Last(s) == s[Len(s)]
Range(s) == { s[i] : i \in 1..Len(s) }

---------------------------------------------------------------------------
(* s3.py: file_digest, CacheEntry and the Cache class. *)

\* SHA1 of a file's bytes; distinct contents of the model have distinct digests
file_digest(data) == IF data = "A" THEN "hA" ELSE "hB"

CacheEntry(s3_object, cached_filename, checksum_sha1) ==
    [obj |-> s3_object, file |-> cached_filename, sha |-> checksum_sha1]

\* repr(entry), as the fields that decide how two reprs compare
EntryFields(e) ==
    << <<IF IsVersioned(e.obj) THEN "VersionedS3Object" ELSE "S3Object">>,
       <<e.obj.bucket>>, e.obj.key, <<e.obj.ver>>, e.file, <<e.sha>> >>

RECURSIVE FieldsLess(_, _)
FieldsLess(fa, fb) ==
    IF fa = <<>> THEN FALSE
    ELSE IF Head(fa) = Head(fb) THEN FieldsLess(Tail(fa), Tail(fb))
    ELSE SeqLess(Head(fa), Head(fb))

EntryLess(a, b) == FieldsLess(EntryFields(a), EntryFields(b))

\* list.sort(key=repr): a stable insertion of e into the sorted list s
InsertEntry(e, s) ==
    LET before == SelectSeq(s, LAMBDA x : ~EntryLess(e, x))
        after == SelectSeq(s, LAMBDA x : EntryLess(e, x))
    IN  before \o <<e>> \o after

RECURSIVE SortEntries(_)
SortEntries(s) ==
    IF s = <<>> THEN <<>>
    ELSE InsertEntry(s[Len(s)], SortEntries(SubSeq(s, 1, Len(s) - 1)))

\* a save that writes the first entry only
save_checksums_head(index) == IF index = <<>> THEN <<>> ELSE <<index[1]>>

\* Cache._save_checksums: every entry, sorted by repr, JSON-encoded (a
\* VersionedS3Object keeps its version_id in the JSON)
save_checksums(index) == SortEntries(index)

\* Cache._load_checksums: decoding with type=list[CacheEntry] makes every
\* s3_object a plain S3Object (the version_id key of the JSON is ignored)
load_checksums(disk) == [i \in 1..Len(disk) |-> [disk[i] EXCEPT !.obj = Unversion(@)]]

\* Cache.get_path: <cache_root>/<bucket>/<key>[/<version_id>], relative to the root
get_path(s3_object) ==
    <<s3_object.bucket>> \o s3_object.key
        \o (IF IsVersioned(s3_object) THEN <<s3_object.ver>> ELSE <<>>)

\* a fetch that takes no file for cached
cached_exists_never(fs, cached_filename) == FALSE

\* fetch's test "cached_filename.exists()" on the directory tree fs: a file,
\* or a directory that holds one
cached_exists(fs, cached_filename) ==
    \/ cached_filename \in DOMAIN fs
    \/ \E f \in DOMAIN fs : /\ Len(f) > Len(cached_filename)
                             /\ SubSeq(f, 1, Len(cached_filename)) = cached_filename

\* get_path's cached_filename.parent.mkdir(parents=True, exist_ok=True) raises
\* FileExistsError when a parent of the path is a regular file
get_path_raises(fs, s3_object) ==
    \E n \in 1..(Len(get_path(s3_object)) - 1) : SubSeq(get_path(s3_object), 1, n) \in DOMAIN fs

\* a fetch that takes every object
fetch_refused_never(s3_object, allow_unversioned) == FALSE

\* fetch's first test: "not versioned and not allow_unversioned" raises ValueError
fetch_refused(s3_object, allow_unversioned) == ~IsVersioned(s3_object) /\ ~allow_unversioned

\* Cache.get_version: the first entry of that checksum whose s3_object equals
\* the one asked for (msgspec structs of different types are never equal);
\* the version is the last part of its cached filename
get_version(index, s3_object, sha1) ==
    LET hits == SelectSeq(index, LAMBDA e : e.sha = sha1 /\ e.obj = s3_object)
    IN  IF hits = <<>> THEN NoVer ELSE Last(hits[1].file)

\* Cache._make_cacheentry (sha1 = NoData stands for sha1=None: digest the cached file)
make_cacheentry(index, fs, cached_filename, s3_object, sha1) ==
    LET sha == IF sha1 = NoData THEN file_digest(fs[cached_filename].data) ELSE sha1
    IN  Append(index, CacheEntry(s3_object, cached_filename, sha))

RECURSIVE SortPaths(_)
\* sorted(self._cache_root.glob("**/*")), the files only
SortPaths(S) ==
    IF S = {} THEN <<>>
    ELSE LET m == CHOOSE x \in S : \A y \in S \ {x} : SeqLess(x, y)
         IN  <<m>> \o SortPaths(S \ {m})

RECURSIVE RepairEntries(_, _)
\* the loop of Cache.repair over the sorted filenames: [bucket, *key_parts, version_id]
RepairEntries(paths, fs) ==
    IF paths = <<>> THEN <<>>
    ELSE LET f == Head(paths)
             key == SubSeq(f, 2, Len(f) - 1)
         IN  IF Len(f) < 2 THEN RepairEntries(Tail(paths), fs)
             ELSE <<CacheEntry(S3Object(f[1], key), f, file_digest(fs[f].data))>>
                    \o RepairEntries(Tail(paths), fs)

\* a repair that looks at the files of single-part keys only
repair_flat(fs) == RepairEntries(SortPaths({ f \in DOMAIN fs : Len(f) = 3 }), fs)

\* Cache.repair: the index rebuilt from the directory tree
repair(fs) == RepairEntries(SortPaths(DOMAIN fs), fs)

---------------------------------------------------------------------------
(* The state of a call, and what a finished call leaves for the properties. *)

\* no resolve_artifact_name and no run_actions under way
NoName == [phase |-> "none"]
NoRun == [phase |-> "none"]

NoLoc == [obj |-> NoObj, data |-> NoData, s3 |-> <<>>, allow_unversioned |-> FALSE]
NoPut == [obj |-> NoObj, data |-> NoData, ver |-> NoVer, ups |-> 0]
NoLast == [kind |-> "none", proc |-> 0, obj |-> NoObj, data |-> NoData, ver |-> NoVer,
           path |-> <<>>, raised |-> FALSE, uploaded |-> FALSE, hit |-> FALSE,
           prevVer |-> NoVer, prevUps |-> 0, allow_unversioned |-> FALSE]

\* an operation on object r ends the "nothing else in between" of every recorded put to r
Touch(lp, r) == [q \in Procs |-> IF lp[q].obj = r THEN NoPut ELSE lp[q]]

RemoteVersions(r) == { VersionedS3Object(r.bucket, r.key, VersionName[i]) : i \in 1..Len(remote[r]) }
RemoteData(o) ==
    LET i == CHOOSE j \in 1..Len(remote[Unversion(o)]) : VersionName[j] = o.ver
    IN  remote[Unversion(o)][i]

\* S3Client.latest_version: the VersionId get_object reports for the key now
latest_version(s3_object) == VersionName[Len(remote[s3_object])]

RemoveFile(fs, path) == [f \in DOMAIN fs \ {path} |-> fs[f]]
WriteFile(fs, path, data) == (path :> [data |-> data, ro |-> FALSE]) @@ fs

---------------------------------------------------------------------------
(* Cache.__init__ and S3Client.__init__: a process constructs a new client (for
   its next tracker), loading the index from disk.  A new client whose index
   would equal the old one's is the old one.  msgspec.json.decode raises
   DecodeError on a checksums.json that is empty or cut short. *)

\* checksums.json between the open("wb") of _save_checksums, which empties
\* it, and the end of the write, or with the bytes of two writers mixed: not
\* the JSON of a list of entries
Unparseable == <<[obj |-> NoObj, file |-> <<>>, sha |-> "unparseable"]>>

Construct(p) ==
    /\ pc[p] = "idle"
    /\ IF diskIndex = Unparseable
       THEN /\ last' = [NoLast EXCEPT !.kind = "construct", !.proc = p, !.raised = TRUE]
            /\ last' # last
            /\ UNCHANGED mem
       ELSE /\ mem[p] # load_checksums(diskIndex)
            /\ mem' = [mem EXCEPT ![p] = load_checksums(diskIndex)]
            /\ last' = NoLast
    /\ pc' = [pc EXCEPT ![p] = "idle"]
    /\ UNCHANGED <<remote, files, diskIndex, loc, lastPut, logged, nops>>
    /\ UNCHANGED <<nameVars, runVars>>

\* Cache.finalize_adding_file on the directory tree fs: chmod(0o400),
\* _make_cacheentry, then _save_checksums
finalize_adding_file(p, fs, cached_filename, s3_object, sha1) ==
    /\ files' = [fs EXCEPT ![cached_filename].ro = TRUE]
    /\ mem' = [mem EXCEPT ![p] = make_cacheentry(@, fs, cached_filename, s3_object, sha1)]
    /\ diskIndex' = save_checksums(mem'[p])

---------------------------------------------------------------------------
(* Artifacts.declare_output and S3Client.put. *)

\* declare_output with an empty list of local files raises ValueError
DeclareOutputEmpty(p) ==
    /\ pc[p] = "idle"
    /\ nops < MaxOps
    /\ nops' = nops + 1
    /\ last' = [NoLast EXCEPT !.kind = "declare_output", !.proc = p, !.raised = TRUE]
    /\ UNCHANGED <<remote, files, diskIndex, mem, pc, loc, lastPut, logged>>
    /\ UNCHANGED <<nameVars, runVars>>

PutRecord(p, s3_object, data, version_id, uploaded) ==
    LET again == lastPut[p].obj = s3_object /\ lastPut[p].data = data
    IN  [NoLast EXCEPT !.kind = "put", !.proc = p, !.obj = s3_object, !.data = data,
                       !.ver = version_id, !.uploaded = uploaded,
                       !.prevVer = IF again THEN lastPut[p].ver ELSE NoVer,
                       !.prevUps = IF again THEN lastPut[p].ups ELSE 0]

\* put has returned versioned_s3_object to the loop of declare_output: with
\* more files in the list the loop goes on, after the last one
\* AeromancyArtifact(name, artifact_type, s3=s3_objects) is built and logged
PutReturn(p, versioned_s3_object, more) ==
    LET s3_objects == Append(loc[p].s3, versioned_s3_object)
    IN  IF more
        THEN /\ pc' = [pc EXCEPT ![p] = "declare"]
             /\ loc' = [loc EXCEPT ![p] = [NoLoc EXCEPT !.s3 = s3_objects]]
             /\ UNCHANGED logged
        ELSE /\ pc' = [pc EXCEPT ![p] = "idle"]
             /\ loc' = [loc EXCEPT ![p] = NoLoc]
             /\ logged' = logged \cup {[name |-> "art", s3 |-> s3_objects]}

\* declare_output with a non-empty list begins (pc = "idle") or its loop
\* reaches the next file (pc = "declare"), and put runs up to the upload: a
\* cache hit returns the recorded version at once, a miss uploads the file.
\* The files of the list are drawn as the loop reaches them, and so is
\* whether there are more of them.
PutCall(p, s3_object, data, more) ==
    LET sha1 == file_digest(data)
        existing_version_id == get_version(mem[p], s3_object, sha1)
    IN  /\ pc[p] \in {"idle", "declare"}
        /\ nops < MaxOps
        /\ nops' = nops + 1
        /\ IF existing_version_id # NoVer
           THEN /\ PutReturn(p, VersionedS3Object(s3_object.bucket, s3_object.key,
                                                  existing_version_id), more)
                /\ last' = PutRecord(p, s3_object, data, existing_version_id, FALSE)
                /\ lastPut' = [Touch(lastPut, s3_object) EXCEPT ![p] =
                                  [obj |-> s3_object, data |-> data,
                                   ver |-> existing_version_id,
                                   ups |-> last'.prevUps]]
                /\ UNCHANGED remote
           ELSE /\ remote' = [remote EXCEPT ![s3_object] = Append(@, data)]
                /\ pc' = [pc EXCEPT ![p] = "put_uploaded"]
                /\ loc' = [loc EXCEPT ![p].obj = s3_object, ![p].data = data]
                /\ last' = NoLast
                /\ lastPut' = [Touch(lastPut, s3_object) EXCEPT ![p] =
                                  IF lastPut[p].obj = s3_object /\ lastPut[p].data = data
                                  THEN lastPut[p] ELSE @]
                /\ UNCHANGED logged
        /\ UNCHANGED <<files, diskIndex, mem>>
        /\ UNCHANGED <<nameVars, runVars>>

\* the rest of put: version_id = self.latest_version(s3_object);
\* cached_filename = self.cache.get_path(versioned_s3_object); shutil.copy(...);
\* self.cache.finalize_adding_file(s3_object=s3_object, cached_filename=..., sha1=sha1)
\* and return versioned_s3_object.  Copying onto a file that an earlier
\* finalize made read-only raises PermissionError, except for a superuser,
\* whose copy overwrites it; get_path raises when the object's directory is
\* taken by the file of an unversioned fetch.
PutFinish(p, more) ==
    LET version_id == latest_version(loc[p].obj)
        versioned_s3_object == VersionedS3Object(loc[p].obj.bucket, loc[p].obj.key, version_id)
        cached_filename == get_path(versioned_s3_object)
        locked == cached_filename \in DOMAIN files /\ files[cached_filename].ro
        copied == WriteFile(files, cached_filename, loc[p].data)
    IN  /\ pc[p] = "put_uploaded"
        /\ \E superuser \in BOOLEAN :
             IF get_path_raises(files, versioned_s3_object) \/ (locked /\ ~superuser)
             THEN /\ pc' = [pc EXCEPT ![p] = "idle"]
                  /\ last' = [NoLast EXCEPT !.kind = "put", !.proc = p, !.obj = loc[p].obj,
                                            !.data = loc[p].data, !.raised = TRUE,
                                            !.uploaded = TRUE]
                  /\ loc' = [loc EXCEPT ![p] = NoLoc]
                  /\ lastPut' = [lastPut EXCEPT ![p] = NoPut]
                  /\ UNCHANGED <<files, mem, diskIndex, logged>>
             ELSE /\ finalize_adding_file(p, copied, cached_filename, loc[p].obj,
                                          file_digest(loc[p].data))
                  /\ PutReturn(p, versioned_s3_object, more)
                  /\ last' = PutRecord(p, loc[p].obj, loc[p].data, version_id, TRUE)
                  /\ lastPut' = [lastPut EXCEPT ![p] =
                                    [obj |-> loc[p].obj, data |-> loc[p].data,
                                     ver |-> version_id, ups |-> last'.prevUps + 1]]
        /\ UNCHANGED <<remote, nops>>
        /\ UNCHANGED <<nameVars, runVars>>

\* the rest of put as far as the open("wb") of _save_checksums: the file is
\* copied and made read-only, the entry is appended in memory and
\* checksums.json is opened for writing, which empties it
PutStored(p) ==
    LET version_id == latest_version(loc[p].obj)
        versioned_s3_object == VersionedS3Object(loc[p].obj.bucket, loc[p].obj.key, version_id)
        cached_filename == get_path(versioned_s3_object)
        locked == cached_filename \in DOMAIN files /\ files[cached_filename].ro
        copied == WriteFile(files, cached_filename, loc[p].data)
    IN  /\ pc[p] = "put_uploaded"
        /\ \E superuser \in BOOLEAN :
             IF get_path_raises(files, versioned_s3_object) \/ (locked /\ ~superuser)
             THEN /\ pc' = [pc EXCEPT ![p] = "idle"]
                  /\ last' = [NoLast EXCEPT !.kind = "put", !.proc = p, !.obj = loc[p].obj,
                                            !.data = loc[p].data, !.raised = TRUE,
                                            !.uploaded = TRUE]
                  /\ loc' = [loc EXCEPT ![p] = NoLoc]
                  /\ UNCHANGED <<files, mem, diskIndex>>
             ELSE /\ files' = [copied EXCEPT ![cached_filename].ro = TRUE]
                  /\ mem' = [mem EXCEPT ![p] = make_cacheentry(@, copied, cached_filename,
                                                               loc[p].obj,
                                                               file_digest(loc[p].data))]
                  /\ diskIndex' = Unparseable
                  /\ pc' = [pc EXCEPT ![p] = "save_opened"]
                  /\ loc' = [loc EXCEPT ![p].obj = versioned_s3_object]
                  /\ last' = NoLast
        /\ lastPut' = [lastPut EXCEPT ![p] = NoPut]
        /\ UNCHANGED <<remote, nops, logged>>
        /\ UNCHANGED <<nameVars, runVars>>

\* checksums.write(jsonified) and the return of put.  Each writer writes from
\* offset 0 of the file it opened: after another writer has written, the file
\* holds this writer's JSON only if that is the longer one (more entries;
\* either way for as many entries), and the tail of the other's behind it
\* otherwise.
SaveWrite(p, more) ==
    LET jsonified == save_checksums(mem[p])
    IN  /\ pc[p] = "save_opened"
        /\ \E longer \in BOOLEAN :
             diskIndex' = IF diskIndex = Unparseable \/ Len(jsonified) > Len(diskIndex)
                             \/ (Len(jsonified) = Len(diskIndex) /\ longer)
                          THEN jsonified ELSE Unparseable
        /\ PutReturn(p, loc[p].obj, more)
        /\ last' = PutRecord(p, Unversion(loc[p].obj), loc[p].data, loc[p].obj.ver, TRUE)
        /\ UNCHANGED <<remote, files, mem, lastPut, nops>>
        /\ UNCHANGED <<nameVars, runVars>>

---------------------------------------------------------------------------
(* S3Client.fetch. *)

FetchRecord(p, s3_object, hit, raised) ==
    [NoLast EXCEPT !.kind = "fetch", !.proc = p, !.obj = s3_object, !.ver = s3_object.ver,
                   !.path = get_path(s3_object), !.hit = hit, !.raised = raised]

\* what download_file writes: the object's bytes at version_id, or at its
\* latest version when the object carries none
Downloaded(s3_object) ==
    IF IsVersioned(s3_object) THEN RemoteData(s3_object) ELSE Last(remote[s3_object])

\* fetch, up to the download: an unversioned object is refused unless
\* allow_unversioned; a file already at cache.get_path(s3_object) is returned
\* as it is, otherwise download_file writes it there.  The path of an
\* unversioned object is the directory of the object's versions: it exists
\* once get_path has made it for a version (dir_left), with or without files.
FetchCall(p, s3_object, allow_unversioned) ==
    LET cached_filename == get_path(s3_object)
        refused == fetch_refused(s3_object, allow_unversioned)
    IN  /\ pc[p] = "idle"
        /\ nops < MaxOps
        /\ nops' = nops + 1
        /\ IF IsVersioned(s3_object)
           THEN s3_object \in RemoteVersions(Unversion(s3_object))
           ELSE refused \/ remote[s3_object] # <<>>
        /\ lastPut' = Touch(lastPut, Unversion(s3_object))
        /\ IF refused \/ get_path_raises(files, s3_object)
           THEN /\ last' = [FetchRecord(p, s3_object, FALSE, TRUE)
                               EXCEPT !.allow_unversioned = allow_unversioned]
                /\ UNCHANGED <<files, pc, loc>>
           ELSE \E dir_left \in (IF IsVersioned(s3_object) THEN {FALSE} ELSE BOOLEAN) :
                  IF cached_exists(files, cached_filename) \/ dir_left
                  THEN /\ last' = [FetchRecord(p, s3_object, TRUE, FALSE)
                                      EXCEPT !.allow_unversioned = allow_unversioned]
                       /\ UNCHANGED <<files, pc, loc>>
                  ELSE /\ files' = WriteFile(files, cached_filename, Downloaded(s3_object))
                       /\ pc' = [pc EXCEPT ![p] = "fetch_downloaded"]
                       /\ loc' = [loc EXCEPT ![p] =
                                     [NoLoc EXCEPT !.obj = s3_object,
                                                   !.allow_unversioned = allow_unversioned]]
                       /\ last' = NoLast
        /\ UNCHANGED <<remote, diskIndex, mem, logged>>
        /\ UNCHANGED <<nameVars, runVars>>

\* get_object for LastModified, then finalize_adding_file(cached_filename,
\* s3_object, last_modified): os.utime raises when the file has gone
FetchFinalize(p) ==
    LET cached_filename == get_path(loc[p].obj)
    IN  /\ pc[p] = "fetch_downloaded"
        /\ pc' = [pc EXCEPT ![p] = "idle"]
        /\ loc' = [loc EXCEPT ![p] = NoLoc]
        /\ IF cached_filename \notin DOMAIN files
           THEN /\ last' = [FetchRecord(p, loc[p].obj, FALSE, TRUE)
                               EXCEPT !.allow_unversioned = loc[p].allow_unversioned]
                /\ UNCHANGED <<files, mem, diskIndex>>
           ELSE /\ finalize_adding_file(p, files, cached_filename, loc[p].obj, NoData)
                /\ last' = [FetchRecord(p, loc[p].obj, FALSE, FALSE)
                               EXCEPT !.allow_unversioned = loc[p].allow_unversioned]
        /\ UNCHANGED <<remote, lastPut, logged, nops>>
        /\ UNCHANGED <<nameVars, runVars>>

\* the get_object after the download raises a transport error
FetchFails(p) ==
    /\ pc[p] = "fetch_downloaded"
    /\ pc' = [pc EXCEPT ![p] = "idle"]
    /\ loc' = [loc EXCEPT ![p] = NoLoc]
    /\ last' = [FetchRecord(p, loc[p].obj, FALSE, TRUE)
                   EXCEPT !.allow_unversioned = loc[p].allow_unversioned]
    /\ UNCHANGED <<remote, files, diskIndex, mem, lastPut, logged, nops>>
    /\ UNCHANGED <<nameVars, runVars>>

---------------------------------------------------------------------------
(* Cache.repair on a process's cache, and the environment. *)

Repair(p) ==
    /\ pc[p] = "idle"
    /\ nops < MaxOps
    /\ nops' = nops + 1
    /\ mem' = [mem EXCEPT ![p] = repair(files)]
    /\ diskIndex' = save_checksums(mem'[p])
    /\ last' = [NoLast EXCEPT !.kind = "repair", !.proc = p]
    /\ lastPut' = [q \in Procs |-> NoPut]
    /\ UNCHANGED <<remote, files, pc, loc, logged>>
    /\ UNCHANGED <<nameVars, runVars>>

\* a cached file is deleted by hand (the way fetch's docstring names to get
\* a file downloaded again)
ManualDelete(path) ==
    /\ nops < MaxOps
    /\ nops' = nops + 1
    /\ path \in DOMAIN files
    /\ files' = RemoveFile(files, path)
    /\ lastPut' = [q \in Procs |-> NoPut]
    /\ last' = NoLast
    /\ UNCHANGED <<remote, diskIndex, mem, pc, loc, logged>>
    /\ UNCHANGED <<nameVars, runVars>>

---------------------------------------------------------------------------
\* an empty bucket and an empty cache root, a client constructed in each process
StoreInit ==
    /\ remote = [r \in Refs |-> <<>>]
    /\ files = <<>>
    /\ diskIndex = <<>>
    /\ mem = [p \in Procs |-> <<>>]
    /\ pc = [p \in Procs |-> "idle"]
    /\ loc = [p \in Procs |-> NoLoc]
    /\ lastPut = [p \in Procs |-> NoPut]
    /\ last = NoLast
    /\ logged = {}
    /\ nops = 0

Init ==
    /\ StoreInit
    /\ nameState = NoName
    /\ runState = NoRun

AllVersioned == { VersionedS3Object(r.bucket, r.key, VersionName[i]) : r \in Refs, i \in 1..MaxOps }

\* the processes and the contents are interchangeable: the first call of a
\* behaviour is made by process 1, and a put of it is given the contents "A"
\* allow_unversioned plays no part in the fetch of a VersionedS3Object
AllowFlags(o) == IF IsVersioned(o) THEN {FALSE} ELSE BOOLEAN

Callers == IF nops = 0 THEN {1} ELSE Procs
PutContents == IF nops = 0 THEN {"A"} ELSE Contents

Next ==
    \/ \E p \in Procs : Construct(p)
    \/ \E p \in Callers : DeclareOutputEmpty(p)
    \/ \E p \in Callers, r \in Refs, d \in PutContents, more \in BOOLEAN : PutCall(p, r, d, more)
    \/ \E p \in Procs, more \in BOOLEAN : PutFinish(p, more)
    \/ \E p \in Callers, o \in AllVersioned : FetchCall(p, o, FALSE)
    \/ \E p \in Procs : FetchFinalize(p)
    \/ \E p \in Procs : FetchFails(p)
    \/ \E p \in Callers : Repair(p)
    \/ \E f \in DOMAIN files : ManualDelete(f)

Spec == Init /\ [][Next]_vars

\* two processes on one cache root, with the steps of _save_checksums apart
NextSave ==
    \/ \E p \in Procs : Construct(p)
    \/ \E p \in Callers, r \in Refs, d \in PutContents, more \in BOOLEAN : PutCall(p, r, d, more)
    \/ \E p \in Procs : PutStored(p)
    \/ \E p \in Procs, more \in BOOLEAN : SaveWrite(p, more)

SpecSave == Init /\ [][NextSave]_vars

\* one client on its own, fetching VersionedS3Objects and plain S3Objects,
\* with and without allow_unversioned
Client == 1

\* an empty cache root and a bucket in which other machines may have stored
\* an object already
InitFetch ==
    /\ remote \in [Refs -> {<<>>, <<"A">>}]
    /\ files = <<>>
    /\ diskIndex = <<>>
    /\ mem = [p \in Procs |-> <<>>]
    /\ pc = [p \in Procs |-> "idle"]
    /\ loc = [p \in Procs |-> NoLoc]
    /\ lastPut = [p \in Procs |-> NoPut]
    /\ last = NoLast
    /\ logged = {}
    /\ nops = 0
    /\ nameState = NoName
    /\ runState = NoRun

NextFetch ==
    \/ Construct(Client)
    \/ \E r \in Refs, d \in Contents, more \in BOOLEAN : PutCall(Client, r, d, more)
    \/ \E more \in BOOLEAN : PutFinish(Client, more)
    \/ \E o \in AllVersioned \cup Refs :
          \E allow_unversioned \in AllowFlags(o) : FetchCall(Client, o, allow_unversioned)
    \/ FetchFinalize(Client)
    \/ FetchFails(Client)
    \/ Repair(Client)
    \/ \E f \in DOMAIN files : ManualDelete(f)

SpecFetch == InitFetch /\ [][NextFetch]_vars

---------------------------------------------------------------------------
(* Properties of the S3 client and its cache, checked under Spec. *)

\* the S3Object a cached file belongs to, as repair reads it off the path
FileRef(f) == S3Object(f[1], SubSeq(f, 2, Len(f) - 1))

\* C1: when a process puts the same contents to the same S3Object twice, with
\* no operation on that object in between, the second put returns the
\* VersionedS3Object of the first and the two together upload at most once
\* (the second never uploads).
C1_PutTwiceSameVersionOneUpload ==
    (last.kind = "put" /\ ~last.raised /\ last.prevVer # NoVer)
        => /\ last.ver = last.prevVer
           /\ ~last.uploaded
           /\ last.prevUps <= 1

\* C1 within one client: the second put of the same contents, made by the
\* client that made the first, is a cache hit
C1_SecondPutHits ==
    last.kind = "put" /\ ~last.raised /\ last.prevVer # NoVer /\ ~last.uploaded
        /\ last.ver = last.prevVer /\ last.prevUps = 1

\* a step in which a process begins a fetch of the VersionedS3Object o
FetchBegins(o) ==
    \E p \in Procs :
        /\ pc[p] = "idle"
        /\ nops' = nops + 1
        /\ \/ last'.kind = "fetch" /\ last'.proc = p /\ last'.obj = o
           \/ pc'[p] = "fetch_downloaded" /\ loc'[p].obj = o

\* C6: a fetch of a VersionedS3Object whose file is present at
\* cache.get_path(ref) downloads nothing: it returns that path and leaves the
\* cached files, the in-memory indexes and the index on disk as they were.
C6_FetchOfCachedChangesNothing ==
    [][\A o \in AllVersioned :
          (FetchBegins(o) /\ get_path(o) \in DOMAIN files)
              => /\ last'.kind = "fetch" /\ last'.hit /\ ~last'.raised
                 /\ last'.path = get_path(o)
                 /\ UNCHANGED <<files, diskIndex, mem, remote, pc>>]_vars

\* a fetch has just returned the path of a file that was cached before the call
C6_FetchHit ==
    last.kind = "fetch" /\ last.hit /\ last.path \in DOMAIN files

\* the index that the repair of the latest step has built, in memory and as
\* the next client loads it from disk
RepairedIndexes == { mem[last.proc], load_checksums(diskIndex) }

NoAbsentFile(index) == \A i \in 1..Len(index) : index[i].file \in DOMAIN files

\* C7 as stated: after repair() the index has an entry for every file present
\* below the bucket directories, get_version(ref, checksum of the file) gives
\* the version encoded in the path of that file, and no entry refers to an
\* absent file.
C7_RepairGivesVersionOfPath ==
    last.kind = "repair" =>
        \A index \in RepairedIndexes :
            /\ \A f \in DOMAIN files :
                  get_version(index, FileRef(f), file_digest(files[f].data)) = Last(f)
            /\ NoAbsentFile(index)

\* C7 amended: after repair() get_version(ref, checksum of the file) succeeds
\* for every file present, with the version encoded in the path of a present
\* file of that ref and that checksum (the first in path order when several
\* versions hold the same bytes), and no entry refers to an absent file.
C7_RepairGivesVersionOfSomeSuchFile ==
    last.kind = "repair" =>
        \A index \in RepairedIndexes :
            /\ \A f \in DOMAIN files :
                  LET v == get_version(index, FileRef(f), file_digest(files[f].data))
                      same == { g \in DOMAIN files :
                                  FileRef(g) = FileRef(f) /\ files[g].data = files[f].data }
                  IN  /\ v # NoVer
                      /\ \E g \in same : v = Last(g)
                      /\ \A g \in same : v = Last(g) \/ SeqLess(<<v>>, <<Last(g)>>)
            /\ NoAbsentFile(index)

\* repair has just rebuilt the index of a cache that holds a file under a
\* multi-part key and two versions of one object with the same bytes
C7_RepairedWithTwins ==
    /\ last.kind = "repair"
    /\ \E f \in DOMAIN files : Len(f) > 3
    /\ \E f, g \in DOMAIN files :
           f # g /\ FileRef(f) = FileRef(g) /\ files[f].data = files[g].data

\* C8: once both processes have completed their calls, every entry a process
\* holds for a file that is in the cache is in the index on disk.
C8_NoLostUpdate ==
    (\A p \in Procs : pc[p] = "idle") =>
        \A p \in Procs : \A i \in 1..Len(mem[p]) :
            mem[p][i].file \in DOMAIN files
                => \E j \in 1..Len(diskIndex) : diskIndex[j].file = mem[p][i].file

---------------------------------------------------------------------------
(* fake_tracker.py: the FakeTracker, its cache at ~/FakeCache and its
   artifact mapping.  One process runs its trackers one after the other; mem[1]
   is the index of the current tracker's Cache and logged the artifact mapping
   (artifact_mapping.json, which the one tracker alive reads and rewrites). *)

FakeProc == 1
LocalNames == {"f", "g"}
ArtifactNames == {"art", "art2"}

\* the lists of local files a declare_output is called with: none, one or
\* two files of different names, each a name below strip_prefix and its bytes
LocalFiles == { [name |-> n, data |-> d] : n \in LocalNames, d \in Contents }
LocalFileLists ==
    {<<>>} \cup { <<x>> : x \in LocalFiles }
           \cup { <<x, y>> : x \in { l \in LocalFiles : l.name = "f" },
                             y \in { l \in LocalFiles : l.name = "g" } }
FakeDestination == S3Object(Bucket, <<"k">>)

\* S3Object.joinpath / __truediv__ with one more path segment
joinpath(s3_object, part) == S3Object(s3_object.bucket, Append(s3_object.key, part))

\* the fake VersionedS3Object of a local file
FakeVersioned(s3_destination, local) ==
    VersionedS3Object(s3_destination.bucket, joinpath(s3_destination, local.name).key,
                      FAKE_VERSION)

RECURSIVE FakeStoreFiles(_, _, _, _)
\* the loop of FakeTracker.declare_output over local_filenames, from the cache
\* state c = [index, fs, s3]: a file whose (versioned object, sha1) the index
\* does not know is copied to its cache path (made writable first when it
\* exists) and finalized
FakeStoreFiles(c, s3_destination, local_filenames, n) ==
    IF n > Len(local_filenames) THEN c
    ELSE LET local == local_filenames[n]
             versioned_s3_object == FakeVersioned(s3_destination, local)
             sha1 == file_digest(local.data)
             existing_version_id == get_version(c.index, versioned_s3_object, sha1)
             cached_path == get_path(versioned_s3_object)
             copied == WriteFile(c.fs, cached_path, local.data)
             stored ==
                 IF existing_version_id = NoVer
                 THEN [index |-> make_cacheentry(c.index, copied, cached_path,
                                                 versioned_s3_object, sha1),
                       fs |-> [copied EXCEPT ![cached_path].ro = TRUE],
                       saved |-> TRUE,
                       s3 |-> Append(c.s3, versioned_s3_object)]
                 ELSE [c EXCEPT !.s3 = Append(@, versioned_s3_object)]
         IN  FakeStoreFiles(stored, s3_destination, local_filenames, n + 1)

\* FakeTracker.__init__: a new tracker, its Cache loaded from checksums.json
FakeTrackerInit ==
    /\ mem[FakeProc] # load_checksums(diskIndex)
    /\ mem' = [mem EXCEPT ![FakeProc] = load_checksums(diskIndex)]
    /\ last' = NoLast
    /\ UNCHANGED <<remote, files, diskIndex, pc, loc, lastPut, logged, nops>>
    /\ UNCHANGED <<nameVars, runVars>>

\* FakeTracker.declare_output(name, local_filenames, s3_destination, ...)
FakeDeclareOutput(name, local_filenames, s3_destination) ==
    LET c == FakeStoreFiles([index |-> mem[FakeProc], fs |-> files, saved |-> FALSE,
                             s3 |-> <<>>],
                            s3_destination, local_filenames, 1)
    IN  /\ nops < MaxOps
        /\ nops' = nops + 1
        /\ files' = c.fs
        /\ mem' = [mem EXCEPT ![FakeProc] = c.index]
        /\ diskIndex' = IF c.saved THEN save_checksums(c.index) ELSE diskIndex
        /\ logged' = { a \in logged : a.name # name } \cup {[name |-> name, s3 |-> c.s3]}
        /\ last' = [NoLast EXCEPT !.kind = "declare_output", !.proc = FakeProc,
                                  !.path = <<name>>, !.hit = (local_filenames = <<>>)]
        /\ UNCHANGED <<remote, pc, loc, lastPut>>
        /\ UNCHANGED <<nameVars, runVars>>

\* FakeTracker.declare_input(artifact name): the cache paths of the mapped
\* artifact's objects, KeyError for a name the mapping does not hold
FakeDeclareInput(name) ==
    /\ nops < MaxOps
    /\ nops' = nops + 1
    /\ last' = [NoLast EXCEPT !.kind = "declare_input", !.proc = FakeProc,
                              !.path = <<name>>,
                              !.raised = (\A a \in logged : a.name # name)]
    /\ UNCHANGED <<remote, files, diskIndex, mem, pc, loc, lastPut, logged>>
    /\ UNCHANGED <<nameVars, runVars>>

NextFake ==
    \/ FakeTrackerInit
    \/ \E name \in ArtifactNames, l \in LocalFileLists :
          FakeDeclareOutput(name, l, FakeDestination)
    \/ \E name \in ArtifactNames : FakeDeclareInput(name)

SpecFake == Init /\ [][NextFake]_vars

\* C9: a declare_output with an empty list of local files raises, and every
\* artifact registered (logged with the tracking service, or entered in the
\* fake tracker's artifact mapping) has at least one VersionedS3Object.
C9_EmptyOutputRejected ==
    /\ (last.kind = "declare_output" /\ last.hit) => last.raised
    /\ \A a \in logged : Len(a.s3) >= 1

---------------------------------------------------------------------------
(* artifacts.py: WandbArtifactName.  A string is the sequence of its parts:
   the separators "/" and ":", and atoms that hold no separator. *)

\* overrides in the table of one run (--artifact-override entries)
MaxOverrides == 3

None == <<"None">>
\* the characters VALID_WANDB_ARTIFACT_NAME_RE admits make up these atoms;
\* "!" is an atom it rejects
ValidAtoms == {"a", "b", "p", "q", "e", "v1", "v2", "latest"}

\* the override strings and the names to resolve that the model draws from
OverrideStrings ==
    { <<"a", ":", "v1">>, <<"a", ":", "v2">>, <<"a">>,
      <<"p", "/", "a", ":", "v1">>, <<"q", "/", "a", ":", "v2">>,
      <<"e", "/", "p", "/", "a", ":", "v2">>,
      <<"b", ":", "v1">>, <<"a", ":">> }
QueryStrings ==
    { <<"a">>, <<"p", "/", "a">>, <<"q", "/", "a">>, <<"e", "/", "p", "/", "a">>,
      <<"a", ":", "v1">>, <<"a", ":", "latest">>, <<"b">>,
      <<"a", "/", "b", "/", "p", "/", "q">> }
\* the project name of the ActionBuilder (no default, a valid one, and one
\* with a character the pattern rejects)
DefaultProjects == { None, <<"p">>, <<"!">> }

RECURSIVE OverrideTables(_)
\* the tables of at most n override strings
OverrideTables(n) ==
    IF n = 0 THEN { <<>> }
    ELSE LET shorter == OverrideTables(n - 1)
         IN  shorter \cup { Append(t, o) : t \in { u \in shorter : Len(u) = n - 1 },
                                           o \in OverrideStrings }

RECURSIVE split(_, _)
\* str.split(sep)
split(text, sep) ==
    IF \A i \in 1..Len(text) : text[i] # sep THEN <<text>>
    ELSE LET i == CHOOSE k \in 1..Len(text) :
                     text[k] = sep /\ \A j \in 1..(k - 1) : text[j] # sep
         IN  <<SubSeq(text, 1, i - 1)>> \o split(SubSeq(text, i + 1, Len(text)), sep)

\* str.rsplit(sep, 1) of a string that holds sep
rsplit1(text, sep) ==
    LET i == CHOOSE k \in 1..Len(text) :
                 text[k] = sep /\ \A j \in (k + 1)..Len(text) : text[j] # sep
    IN  <<SubSeq(text, 1, i - 1), SubSeq(text, i + 1, Len(text))>>

RECURSIVE join(_, _)
\* sep.join(pieces)
join(pieces, sep) ==
    IF pieces = <<>> THEN <<>>
    ELSE IF Len(pieces) = 1 THEN pieces[1]
    ELSE pieces[1] \o <<sep>> \o join(Tail(pieces), sep)

\* _validate_wandb_artifact_string raises for name: None passes, and so does
\* what VALID_WANDB_ARTIFACT_NAME_RE.match accepts, one or more admitted
\* characters up to the end of the string or up to a newline that ends it
\* ("$" matches before a trailing newline)
validate_raises(name) ==
    /\ name # None
    /\ LET body == IF name # <<>> /\ Last(name) = "\n"
                   THEN SubSeq(name, 1, Len(name) - 1) ELSE name
       IN  body = <<>> \/ \E i \in 1..Len(body) : body[i] \notin ValidAtoms

WandbArtifactName(entity, project, artifact_name, version) ==
    [entity |-> entity, project |-> project, artifact_name |-> artifact_name,
     version |-> version]

\* WandbArtifactName.__post_init__ raises
post_init_raises(n) ==
    \/ validate_raises(n.entity)
    \/ validate_raises(n.project)
    \/ validate_raises(n.artifact_name)
    \/ validate_raises(n.version)

\* the fields WandbArtifactName.parse hands to cls(...), for at most 3 pieces
parse_fields(wandb_artifact_name) ==
    LET pieces == split(wandb_artifact_name, "/")
        n == Len(pieces)
        versioned == ":" \in Range(pieces[n])
        last_part == IF versioned THEN rsplit1(pieces[n], ":")[1] ELSE pieces[n]
        version == IF versioned THEN rsplit1(pieces[n], ":")[2] ELSE None
    IN  WandbArtifactName(IF n = 3 THEN pieces[1] ELSE None,
                          IF n = 3 THEN pieces[2] ELSE IF n = 2 THEN pieces[1] ELSE None,
                          last_part, version)

\* WandbArtifactName.parse raises ValueError: more than 3 pieces, or a field
\* that does not validate
parse_raises(wandb_artifact_name) ==
    \/ Len(split(wandb_artifact_name, "/")) > 3
    \/ post_init_raises(parse_fields(wandb_artifact_name))

\* WandbArtifactName.parse
parse(wandb_artifact_name) == parse_fields(wandb_artifact_name)

\* a truth value that takes every optional string for unset
Truthy_never(x) == FALSE

\* the truth value of an optional string
Truthy(x) == x # None /\ x # <<>>

\* a format that leaves the version out
str_without_version(n) ==
    join((IF Truthy(n.entity) THEN <<n.entity>> ELSE <<>>)
            \o (IF Truthy(n.project) THEN <<n.project>> ELSE <<>>)
            \o <<n.artifact_name>>, "/")

\* WandbArtifactName.__str__
str(n) ==
    LET pieces == (IF Truthy(n.entity) THEN <<n.entity>> ELSE <<>>)
                  \o (IF Truthy(n.project) THEN <<n.project>> ELSE <<>>)
                  \o <<n.artifact_name>>
        base == join(pieces, "/")
    IN  IF Truthy(n.version) THEN base \o <<":">> \o n.version ELSE base

\* a comparison without wildcards, of every field
matches_exact(self, other_artifact_name) == self = other_artifact_name

\* WandbArtifactName.matches
matches(self, other_artifact_name) ==
    /\ ~(Truthy(self.entity) /\ Truthy(other_artifact_name.entity)
            /\ self.entity # other_artifact_name.entity)
    /\ ~(Truthy(self.project) /\ Truthy(other_artifact_name.project)
            /\ self.project # other_artifact_name.project)
    /\ self.artifact_name = other_artifact_name.artifact_name

RECURSIVE incorporate_every_match(_, _, _)
\* a loop over the overrides that does not stop at a match
incorporate_every_match(self, artifact_overrides, i) ==
    IF i > Len(artifact_overrides) THEN [raised |-> FALSE, name |-> self]
    ELSE IF parse_raises(artifact_overrides[i]) THEN [raised |-> TRUE, name |-> self]
    ELSE LET parsed_artifact_name == parse(artifact_overrides[i])
         IN  incorporate_every_match(
                 IF matches(self, parsed_artifact_name)
                 THEN [self EXCEPT !.version = parsed_artifact_name.version] ELSE self,
                 artifact_overrides, i + 1)

RECURSIVE incorporate_overrides(_, _, _)
\* WandbArtifactName.incorporate_overrides, from entry i of the table on: each
\* entry is parsed when the loop reaches it, the first match sets the version
\* and ends the loop
incorporate_overrides(self, artifact_overrides, i) ==
    IF i > Len(artifact_overrides) THEN [raised |-> FALSE, name |-> self]
    ELSE IF parse_raises(artifact_overrides[i]) THEN [raised |-> TRUE, name |-> self]
    ELSE LET parsed_artifact_name == parse(artifact_overrides[i])
         IN  IF matches(self, parsed_artifact_name)
             THEN [raised |-> FALSE,
                   name |-> [self EXCEPT !.version = parsed_artifact_name.version]]
             ELSE incorporate_overrides(self, artifact_overrides, i + 1)

\* no WandbArtifactName (the call raised before it had one to return)
NoArtifactName == WandbArtifactName(None, None, None, None)

\* a resolution that looks for overrides before it fills in the defaults
resolve_before_defaults(artifact_name, default_project_name, artifact_overrides) ==
    IF parse_raises(artifact_name)
    THEN [raised |-> TRUE, value |-> <<>>, name |-> NoArtifactName]
    ELSE LET done == incorporate_overrides(parse(artifact_name), artifact_overrides, 1)
             filled == [done.name EXCEPT
                           !.project = IF Truthy(@) THEN @ ELSE default_project_name,
                           !.version = IF Truthy(@) THEN @ ELSE <<"latest">>]
         IN  IF done.raised THEN [raised |-> TRUE, value |-> <<>>, name |-> NoArtifactName]
             ELSE [raised |-> FALSE, value |-> str(filled), name |-> filled]

\* WandbArtifactName.resolve_artifact_name: the string it returns (value) and
\* the WandbArtifactName that string is the format of (name)
resolve_artifact_name(artifact_name, default_project_name, artifact_overrides) ==
    IF parse_raises(artifact_name)
    THEN [raised |-> TRUE, value |-> <<>>, name |-> NoArtifactName]
    ELSE LET parsed == parse(artifact_name)
             filled == [parsed EXCEPT
                           !.project = IF Truthy(@) THEN @ ELSE default_project_name,
                           !.version = IF Truthy(@) THEN @ ELSE <<"latest">>]
             done == incorporate_overrides(filled, artifact_overrides, 1)
         IN  IF done.raised THEN [raised |-> TRUE, value |-> <<>>, name |-> NoArtifactName]
             ELSE [raised |-> FALSE, value |-> str(done.name), name |-> done.name]

InitNames ==
    /\ StoreInit
    /\ runState = NoRun
    /\ \E q \in QueryStrings, d \in DefaultProjects, t \in OverrideTables(MaxOverrides) :
          nameState = [phase |-> "call", artifact_name |-> q, default_project_name |-> d,
                       artifact_overrides |-> t, raised |-> FALSE, value |-> <<>>,
                       name |-> NoArtifactName]

\* resolve_artifact_name is called with the inputs of the state
ResolveArtifactName ==
    /\ nameState.phase = "call"
    /\ LET r == resolve_artifact_name(nameState.artifact_name,
                                      nameState.default_project_name,
                                      nameState.artifact_overrides)
       IN  nameState' = [nameState EXCEPT !.phase = "done", !.raised = r.raised,
                                          !.value = r.value, !.name = r.name]
    /\ UNCHANGED <<storeVars, runVars>>

NextNames == ResolveArtifactName

SpecNames == InitNames /\ [][NextNames]_vars

\* the name being resolved, with the defaults filled in, as the overrides see it
Resolving ==
    LET parsed == parse(nameState.artifact_name)
    IN  [parsed EXCEPT
            !.project = IF Truthy(@) THEN @ ELSE nameState.default_project_name,
            !.version = IF Truthy(@) THEN @ ELSE <<"latest">>]

\* the positions of the table whose entry parses and matches the name
Matching ==
    { i \in 1..Len(nameState.artifact_overrides) :
        /\ ~parse_raises(nameState.artifact_overrides[i])
        /\ matches(Resolving, parse(nameState.artifact_overrides[i])) }

FirstMatching == CHOOSE i \in Matching : \A j \in Matching : i <= j

\* C10: when two or more entries of the override table match the name being
\* resolved (and the entries before the first of them parse), the result of
\* resolve_artifact_name is the name with the version of the first matching
\* entry in table order, whatever follows that entry.
C10_FirstMatchWins ==
    (/\ nameState.phase = "done"
     /\ ~parse_raises(nameState.artifact_name)
     /\ Cardinality(Matching) >= 2
     /\ \A j \in 1..(FirstMatching - 1) : ~parse_raises(nameState.artifact_overrides[j]))
        => /\ ~nameState.raised
           /\ nameState.value =
                 str([Resolving EXCEPT !.version =
                         parse(nameState.artifact_overrides[FirstMatching]).version])

\* a name has been resolved against a table in which two entries of different
\* versions match it, and the result carries the version of the first
C10_TwoMatchesResolved ==
    /\ nameState.phase = "done"
    /\ ~nameState.raised
    /\ \E i, j \in 1..Len(nameState.artifact_overrides) :
          /\ i < j
          /\ ~parse_raises(nameState.artifact_overrides[i])
          /\ ~parse_raises(nameState.artifact_overrides[j])
          /\ matches(parse(nameState.artifact_name), parse(nameState.artifact_overrides[i]))
          /\ matches(parse(nameState.artifact_name), parse(nameState.artifact_overrides[j]))
          /\ parse(nameState.artifact_overrides[i]).version = <<"v1">>
          /\ parse(nameState.artifact_overrides[j]).version = <<"v2">>
          /\ nameState.value = nameState.artifact_name \o <<":", "v1">>

\* the string of a name: the set fields joined by "/", then ":" and the
\* version when there is one
Format(n) ==
    (IF n.entity # None THEN n.entity \o <<"/">> ELSE <<>>)
        \o (IF n.project # None THEN n.project \o <<"/">> ELSE <<>>)
        \o n.artifact_name
        \o (IF n.version # None THEN <<":">> \o n.version ELSE <<>>)

\* the raw name as parsed, its project taken from default_project_name only
\* when it has none
RawWithProject ==
    LET raw == parse(nameState.artifact_name)
    IN  [raw EXCEPT !.project = IF @ # None THEN @ ELSE nameState.default_project_name]

C12_NoMatchKeepsNameWithDefaults ==
    nameState.phase = "done" =>
        /\ (/\ ~parse_raises(nameState.artifact_name)
            /\ \A j \in 1..Len(nameState.artifact_overrides) :
                  ~parse_raises(nameState.artifact_overrides[j])
            /\ Matching = {})
               => /\ ~nameState.raised
                  /\ nameState.value =
                        Format([RawWithProject EXCEPT
                                   !.version = IF @ # None THEN @ ELSE <<"latest">>])
        /\ (/\ nameState.artifact_name = <<"p", "/", "a">>
            /\ nameState.artifact_overrides = << <<"p", "/", "a", ":", "v1">> >>)
               => nameState.value = <<"p", "/", "a", ":", "v1">>
        /\ (/\ nameState.artifact_name = <<"p", "/", "a">>
            /\ nameState.artifact_overrides = << <<"q", "/", "a", ":", "v2">> >>)
               => nameState.value = <<"p", "/", "a", ":", "latest">>

\* "p/a" has been resolved against the one override "q/a:v2" of another
\* project, with a default project that is not its own
C12_IrrelevantOverrideResolved ==
    /\ nameState.phase = "done"
    /\ nameState.artifact_name = <<"p", "/", "a">>
    /\ nameState.default_project_name = <<"!">>
    /\ nameState.artifact_overrides = << <<"q", "/", "a", ":", "v2">> >>
    /\ nameState.value = <<"p", "/", "a", ":", "latest">>

\* a string of one or more characters of [A-Za-z0-9_.-]
WellFormed(x) == x # <<>> /\ \A i \in 1..Len(x) : x[i] \in ValidAtoms

\* C15: every set field of the WandbArtifactName that resolve_artifact_name
\* has built (parsed, project defaulted, override applied) is non-empty and
\* made of admitted characters only; a malformed field made the call raise.
C15_SetFieldsWellFormed ==
    (nameState.phase = "done" /\ ~nameState.raised) =>
        \A f \in {"entity", "project", "artifact_name", "version"} :
            nameState.name[f] # None => WellFormed(nameState.name[f])

\* C17: an entry of the override table that does not parse as an artifact
\* name (more than 3 pieces, or a malformed field) makes the resolution of a
\* name raise, whatever the position of the entry in the table.
C17_UnparseableOverrideRaises ==
    (/\ nameState.phase = "done"
     /\ \E j \in 1..Len(nameState.artifact_overrides) :
           parse_raises(nameState.artifact_overrides[j]))
        => nameState.raised

---------------------------------------------------------------------------
(* WandbArtifactName values: construction, format and parse, matches. *)

\* the field values two names are constructed from
StructEntities == { None, <<"e">>, <<"q">> }
StructProjects == { None, <<"p">>, <<"q">>, <<>> }
StructArtifactNames == { <<"a">>, <<"b">>, <<"!">>, <<"a", "\n">> }
StructVersions == { None, <<"v1">>, <<"v2">> }
StructFields ==
    { WandbArtifactName(entity, project, artifact_name, version) :
        entity \in StructEntities, project \in StructProjects,
        artifact_name \in StructArtifactNames, version \in StructVersions }

InitStruct ==
    /\ StoreInit
    /\ runState = NoRun
    /\ \E a \in StructFields, b \in StructFields :
          nameState = [phase |-> "new", a |-> a, b |-> b]

\* WandbArtifactName(entity, project, artifact_name, version), for a and for
\* b: __post_init__ validates the fields
NewNames ==
    /\ nameState.phase = "new"
    /\ nameState' = [nameState EXCEPT
                        !.phase = IF post_init_raises(nameState.a)
                                      \/ post_init_raises(nameState.b)
                                  THEN "raised" ELSE "made"]
    /\ UNCHANGED <<storeVars, runVars>>

\* WandbArtifactName.parse(str(a))
ParseStr ==
    /\ nameState.phase = "made"
    /\ LET text == str(nameState.a)
       IN  nameState' = [phase |-> "parsed", a |-> nameState.a, b |-> nameState.b,
                         text |-> text, raised |-> parse_raises(text),
                         result |-> IF parse_raises(text) THEN NoArtifactName
                                    ELSE parse(text)]
    /\ UNCHANGED <<storeVars, runVars>>

\* a.matches(b)
Matches ==
    /\ nameState.phase = "made"
    /\ nameState' = [phase |-> "matched", a |-> nameState.a, b |-> nameState.b,
                     result |-> matches(nameState.a, nameState.b)]
    /\ UNCHANGED <<storeVars, runVars>>

NextStruct ==
    \/ NewNames
    \/ ParseStr
    \/ Matches

SpecStruct == InitStruct /\ [][NextStruct]_vars

\* C13: for every valid WandbArtifactName n, with any combination of entity,
\* project and version set or not, parse(str(n)) = n.
C13_ParseOfStrIsSame ==
    nameState.phase = "parsed" => (~nameState.raised /\ nameState.result = nameState.a)

\* C13, for the names parse can produce: for every valid WandbArtifactName n
\* whose entity is set only if its project is, parse(str(n)) = n; a name
\* that parse returns has its entity set only if its project is.
C13_ParseOfStrIsSameWithProject ==
    nameState.phase = "parsed" =>
        /\ (nameState.a.entity # None => nameState.a.project # None)
               => (~nameState.raised /\ nameState.result = nameState.a)
        /\ ~nameState.raised
               => (nameState.result.entity # None => nameState.result.project # None)

\* a name with entity, project and version set has been formatted and parsed back
C13_FullNameParsedBack ==
    /\ nameState.phase = "parsed"
    /\ nameState.a = WandbArtifactName(<<"e">>, <<"p">>, <<"a">>, <<"v1">>)
    /\ nameState.text = <<"e", "/", "p", "/", "a", ":", "v1">>
    /\ nameState.result = nameState.a

\* the fields f of a and b do not disagree: one of them is unset, or they are equal
Agree(f) == nameState.a[f] = None \/ nameState.b[f] = None \/ nameState.a[f] = nameState.b[f]

\* C14: a.matches(b) iff every field that is set in both names is equal
\* (entity, project, version), an unset field on either side being a
\* wildcard, and the artifact names are equal.
C14_MatchesIffSetFieldsEqual ==
    nameState.phase = "matched" =>
        (nameState.result <=>
            /\ Agree("entity") /\ Agree("project") /\ Agree("version")
            /\ nameState.a.artifact_name = nameState.b.artifact_name)

\* C14, the version left out of the comparison: a.matches(b) iff the entities
\* agree, the projects agree and the artifact names are equal; so for b with
\* entity and project set, a.matches(b) iff each of entity, project and
\* artifact name that a sets equals that of b.
C14_MatchesIffEntityProjectAgree ==
    nameState.phase = "matched" =>
        /\ nameState.result <=>
              /\ Agree("entity") /\ Agree("project")
              /\ nameState.a.artifact_name = nameState.b.artifact_name
        /\ (nameState.b.entity # None /\ nameState.b.project # None)
              => (nameState.result <=>
                    /\ nameState.a.entity \in {None, nameState.b.entity}
                    /\ nameState.a.project \in {None, nameState.b.project}
                    /\ nameState.a.artifact_name = nameState.b.artifact_name)

\* a name without entity has matched a fully specified one of the same
\* project and another version
C14_WildcardEntityMatched ==
    /\ nameState.phase = "matched"
    /\ nameState.result
    /\ nameState.a = WandbArtifactName(None, <<"p">>, <<"a">>, <<"v1">>)
    /\ nameState.b = WandbArtifactName(<<"e">>, <<"p">>, <<"a">>, <<"v2">>)

---------------------------------------------------------------------------
(* action_runner.py and action.py: ActionRunner.run_actions on pydoit.  A
   string is the sequence of its characters. *)

\* actions in the list given to the runner
MaxActions == 3

ActionIds == 1..MaxActions

\* the class attribute job_type and the output names of the i-th action built
JobTypeOf(i) == IF i % 2 = 1 THEN <<"t">> ELSE <<"u">>
OutputLetters == <<"a", "b", "c", "d", "e", "f", "g">>
PrimaryOutputOf(i) == <<OutputLetters[i]>>
SecondOutput == <<"x">>

\* the Action classes a run is made of: Action as action.py defines it, or a
\* class with the setters that action_builder.py and action_runner.py call,
\* _set_buildtime_properties(project_name, skip) and
\* _set_runtime_properties(tags), which action.py does not define
ActionClasses == {"Action", "TaggedAction"}

\* action._set_runtime_properties(tags=self.job_tags) raises TypeError:
\* Action._set_runtime_properties takes project_name and skip
set_runtime_properties_raises(action_class) == action_class = "Action"

\* the values of --only the model draws from (empty: no filter)
OnlySets == { {}, { <<"a">> }, { <<"t">> }, { <<" ", "b", " ">> }, { <<"x">>, <<"c">> } }

\* the lists of actions a builder can make: action i is constructed after its
\* parents, at most one action declares a second output
ActionLists ==
    { [i \in ActionIds |->
          [job_type |-> JobTypeOf(i),
           outputs |-> IF multi = i THEN <<PrimaryOutputOf(i), SecondOutput>>
                       ELSE <<PrimaryOutputOf(i)>>,
           skip |-> skip[i],
           parents |-> parents[i]]] :
        multi \in 0..MaxActions,
        skip \in [ActionIds -> BOOLEAN],
        parents \in { f \in [ActionIds -> SUBSET ActionIds] :
                        \A i \in ActionIds : f[i] \subseteq 1..(i - 1) } }

\* two actions of the list have the same primary output name, outputs()[0]
DuplicateOutputs(actions) ==
    \E i, j \in ActionIds : i # j /\ actions[i].outputs[1] = actions[j].outputs[1]

\* lists in which the action built last declares the output of the first
DuplicateLists ==
    { [actions EXCEPT ![MaxActions].outputs = actions[1].outputs] :
        actions \in { a \in ActionLists : \A i \in ActionIds : Len(a[i].outputs) = 1 } }

\* the values of --tags the model draws from: the tags have no part in
\* which tasks run, they are drawn for the runs without a filter
TagSets(only) == IF only = {} THEN { {}, {"x"} } ELSE { {} }

RECURSIVE SetToSeq(_)
\* the members of a set of numbers in increasing order
SetToSeq(S) ==
    IF S = {} THEN <<>>
    ELSE LET m == CHOOSE x \in S : \A y \in S : x <= y
         IN  <<m>> \o SetToSeq(S \ {m})

RECURSIVE Flatten(_)
Flatten(ss) == IF ss = <<>> THEN <<>> ELSE Head(ss) \o Flatten(Tail(ss))

RECURSIVE strip(_)
\* str.strip() (the whitespace of the model is " ")
strip(text) ==
    IF text = <<>> THEN <<>>
    ELSE IF Head(text) = " " THEN strip(Tail(text))
    ELSE IF text[Len(text)] = " " THEN strip(SubSeq(text, 1, Len(text) - 1))
    ELSE text

\* the test "sub in str" of two strings
Contains(text, sub) ==
    \E i \in 0..(Len(text) - Len(sub)) : SubSeq(text, i + 1, i + Len(sub)) = sub

\* job_name_filter(job_name) of run_actions, for the set only
job_name_filter(only, job_name) ==
    \E job_name_substring \in only : Contains(job_name, strip(job_name_substring))

\* f"{action.job_type} {' '.join(outputs)}"
description(action) == action.job_type \o <<" ">> \o join(action.outputs, " ")

\* a task_deps that leaves the parents out
task_deps_none(actions, i) == <<>>

\* task_deps of _convert_action_to_doittask: every output of every parent
task_deps(actions, i) ==
    Flatten([k \in 1..Cardinality(actions[i].parents) |->
                actions[SetToSeq(actions[i].parents)[k]].outputs])

\* ActionRunner._convert_action_to_doittask, for the i-th action
convert_action_to_doittask(actions, i, only) ==
    LET action == actions[i]
        skip == IF only # {} THEN ~job_name_filter(only, description(action))
                ELSE action.skip
    IN  [name |-> action.outputs[1], task_dep |-> task_deps(actions, i),
         uptodate |-> skip, action |-> i]

\* ActionRunner.load_tasks: the tasks in the order of self.actions
load_tasks(actions, order, only) ==
    [k \in 1..Len(order) |-> convert_action_to_doittask(actions, order[k], only)]

\* a tracker __exit__ that suppresses what the run routine raised
tracker_exit_suppresses(exctype) == exctype # "none"

\* the return value of FakeTracker.__exit__ (False: the exception goes on)
tracker_exit(exctype) == FALSE

\* the tags of the tracker that Action._run constructs: _run passes job_type,
\* job_group, config and project_name, and Tracker.__init__ takes tags=None
\* for no tags
tracker_tags(job_tags) == {}

\* doit's TaskControl refuses the task list: two tasks of one name, or a
\* task_dep that names no task
InvalidTasks(tasks) ==
    \/ \E j, k \in 1..Len(tasks) : j # k /\ tasks[j].name = tasks[k].name
    \/ \E k \in 1..Len(tasks) : \E d \in Range(tasks[k].task_dep) :
          \A j \in 1..Len(tasks) : tasks[j].name # d

TaskNamed(tasks, name) == CHOOSE k \in 1..Len(tasks) : tasks[k].name = name

RECURSIVE Dispatch(_, _, _)
\* doit's TaskDispatcher from task k: its first task_dep that has not run
\* yet comes first, then the task itself
Dispatch(tasks, status, k) ==
    LET waiting == SelectSeq(tasks[k].task_dep,
                             LAMBDA d : status[TaskNamed(tasks, d)] = "none")
    IN  IF waiting = <<>> THEN k ELSE Dispatch(tasks, status, TaskNamed(tasks, waiting[1]))

\* the tasks that have not run yet, and the one doit takes next (the first of
\* the list, after its dependencies)
Pending(tasks, status) == { k \in 1..Len(tasks) : status[k] = "none" }
NextTask(tasks, status) ==
    Dispatch(tasks, status,
             CHOOSE k \in Pending(tasks, status) : \A j \in Pending(tasks, status) : k <= j)

RunCall(actions, order, only, action_class, dev_mode, tags, graph, list_actions) ==
    [phase |-> "call", actions |-> actions, order |-> order, only |-> only,
     action_class |-> action_class, dev_mode |-> dev_mode, tags |-> tags,
     graph |-> graph, list_actions |-> list_actions, shown |-> "none",
     tasks |-> <<>>, status |-> <<>>, log |-> <<>>, trackers |-> <<>>,
     stop_running |-> FALSE, error |-> "none"]

\* the values of --graph and --list-actions the model draws from: neither
\* looks at the filter or the tags, they are drawn for the calls without them
ShowFlags(only, tags) == IF only = {} /\ tags = {} THEN BOOLEAN ELSE {FALSE}

\* a run_actions call about to be made: the actions in the order built or in
\* the reverse order, --only, the class of the actions, and AEROMANCY_DEV_MODE
InitRun ==
    /\ StoreInit
    /\ nameState = NoName
    /\ \E actions \in ActionLists \cup DuplicateLists, reversed \in BOOLEAN,
          only \in OnlySets, action_class \in ActionClasses, dev_mode \in BOOLEAN :
          \E tags \in TagSets(only) :
             \E graph \in ShowFlags(only, tags), list_actions \in ShowFlags(only, tags) :
                runState = RunCall(actions,
                                   [k \in ActionIds |-> IF reversed THEN MaxActions + 1 - k ELSE k],
                                   only, action_class, dev_mode, tags, graph, list_actions)

\* run_actions up to the start of doit's runner: the filter is set; with
\* graph or list_actions the tasks of load_tasks are drawn or listed and
\* SystemExit is raised; otherwise load_tasks sets the runtime properties of
\* the actions and converts them, and TaskControl checks the tasks
RunActions ==
    /\ runState.phase = "call"
    /\ LET tasks == load_tasks(runState.actions, runState.order, runState.only)
       IN  runState' =
             IF set_runtime_properties_raises(runState.action_class)
             THEN [runState EXCEPT !.phase = "error", !.error = "TypeError"]
             ELSE IF runState.graph \/ runState.list_actions
             THEN [runState EXCEPT !.phase = "system_exit",
                                   !.shown = IF runState.graph THEN "graph" ELSE "list"]
             ELSE IF InvalidTasks(tasks)
             THEN [runState EXCEPT !.phase = "error",
                                   !.error = IF DuplicateOutputs(runState.actions)
                                             THEN "InvalidDodoFile" ELSE "InvalidTask",
                                   !.tasks = tasks]
             ELSE [runState EXCEPT !.phase = "running", !.tasks = tasks,
                                   !.status = [k \in 1..Len(tasks) |-> "none"]]
    /\ UNCHANGED <<storeVars, nameVars>>

Dispatching ==
    /\ runState.phase = "running"
    /\ ~runState.stop_running
    /\ \A k \in 1..Len(runState.tasks) : runState.status[k] # "running"
    /\ Pending(runState.tasks, runState.status) # {}

Event(ev, k) == [ev |-> ev, action |-> runState.tasks[k].action]

\* the next task is up to date (uptodate=[True]): doit skips it
SkipUptodate ==
    /\ Dispatching
    /\ LET k == NextTask(runState.tasks, runState.status)
       IN  /\ runState.tasks[k].uptodate
           /\ runState' = [runState EXCEPT !.status[k] = "skipped",
                                           !.log = Append(@, Event("skip", k))]
    /\ UNCHANGED <<storeVars, nameVars>>

\* the next task is not up to date: doit calls action._run, which constructs
\* the tracker (in dev mode the FakeTracker; the constructor of WandbTracker
\* raises)
ExecuteTask ==
    /\ Dispatching
    /\ LET k == NextTask(runState.tasks, runState.status)
       IN  /\ ~runState.tasks[k].uptodate
           /\ runState' = [runState EXCEPT
                               !.status[k] = "running",
                               !.log = Append(@, Event("begin", k)),
                               !.trackers = IF runState.dev_mode
                                            THEN Append(@, tracker_tags(runState.tags))
                                            ELSE @]
    /\ UNCHANGED <<storeVars, nameVars>>

\* the run routine returns and the tracker exits (the FakeTracker of dev mode;
\* the constructor of WandbTracker raises)
RunReturns(k) ==
    /\ runState.phase = "running"
    /\ k \in 1..Len(runState.tasks)
    /\ runState.status[k] = "running"
    /\ runState.dev_mode
    /\ runState' = [runState EXCEPT !.status[k] = "done",
                                    !.log = Append(@, Event("done", k))]
    /\ UNCHANGED <<storeVars, nameVars>>

\* the run routine raises (or, outside dev mode, WandbTracker.__init__ does):
\* unless the tracker's __exit__ suppresses it the task fails and doit, run
\* without --continue, starts no further task; a bailout leaves the process
RunRaises(k, exctype) ==
    /\ runState.phase = "running"
    /\ k \in 1..Len(runState.tasks)
    /\ runState.status[k] = "running"
    /\ exctype = "_BailoutError" => runState.dev_mode
    /\ runState' =
         IF exctype = "_BailoutError"
         THEN [runState EXCEPT !.status[k] = "failed", !.phase = "exit",
                               !.log = Append(@, Event("raise", k))]
         ELSE IF runState.dev_mode /\ tracker_exit(exctype)
         THEN [runState EXCEPT !.status[k] = "done",
                               !.log = Append(@, Event("raise", k))]
         ELSE [runState EXCEPT !.status[k] = "failed", !.stop_running = TRUE,
                               !.log = Append(@, Event("raise", k))]
    /\ UNCHANGED <<storeVars, nameVars>>

\* doit's runner has no task left to start
RunFinishes ==
    /\ runState.phase = "running"
    /\ \A k \in 1..Len(runState.tasks) : runState.status[k] # "running"
    /\ runState.stop_running \/ Pending(runState.tasks, runState.status) = {}
    /\ runState' = [runState EXCEPT !.phase = "done"]
    /\ UNCHANGED <<storeVars, nameVars>>

NextRun ==
    \/ RunActions
    \/ SkipUptodate
    \/ ExecuteTask
    \/ \E k \in ActionIds : RunReturns(k)
    \/ \E k \in ActionIds, exctype \in {"Exception", "_BailoutError"} : RunRaises(k, exctype)
    \/ RunFinishes

SpecRun == InitRun /\ [][NextRun]_vars

---------------------------------------------------------------------------
(* Properties of run_actions, checked under SpecRun. *)

RECURSIVE Ancestors(_, _)
\* the actions that action i depends on, directly or not, through Action.parents
Ancestors(actions, i) ==
    actions[i].parents \cup UNION { Ancestors(actions, b) : b \in actions[i].parents }

\* positions of the log at which the run routine of action i began / the
\* action completed or was skipped as up to date / its run routine raised
Begins(i) == { k \in 1..Len(runState.log) : runState.log[k] = [ev |-> "begin", action |-> i] }
Satisfied(i) ==
    { k \in 1..Len(runState.log) :
        runState.log[k].action = i /\ runState.log[k].ev \in {"done", "skip"} }
Raises(i) == { k \in 1..Len(runState.log) : runState.log[k] = [ev |-> "raise", action |-> i] }

\* the run has ended: doit's runner finished, the task list was refused or
\* the process exited
RunEnded == runState.phase \in {"done", "error", "exit", "system_exit"}

\* the runner marks action i as skipped (uptodate)
MarkedSkipped(i) ==
    convert_action_to_doittask(runState.actions, i, runState.only).uptodate

C3_ExecutesIffFilterMatches ==
    (RunEnded /\ runState.only # {}) =>
        \A a \in ActionIds :
            (Begins(a) # {}) <=>
                (\E sub \in runState.only :
                    Contains(description(runState.actions[a]), sub))

C5_NotSkippedExecutes ==
    RunEnded =>
        \A a \in ActionIds :
            (/\ ~MarkedSkipped(a)
             /\ \A b \in Ancestors(runState.actions, a) :
                   MarkedSkipped(b) \/ Raises(b) = {})
                => Begins(a) # {}

\* C16: when two actions of the list share their primary output name, the
\* run ends in doit's error for a task name given twice, and no run routine
\* has begun; the task names of a run in which a run routine begins are
\* all different.
C16_DuplicateNameFailsBeforeRun ==
    /\ (DuplicateOutputs(runState.actions) /\ runState.phase # "call")
          => /\ runState.phase = "error"
             /\ runState.error = "InvalidDodoFile"
             /\ runState.log = <<>>
    /\ runState.log # <<>> => ~DuplicateOutputs(runState.actions)

\* C20: every tracker created for an action executed in the run carries
\* exactly the tags given to run_actions.
C20_TrackersCarryTags ==
    \A t \in 1..Len(runState.trackers) : runState.trackers[t] = runState.tags

\* a fetch call of a plain S3Object has returned or raised in this step
\* without a download
UnversionedFetchEnds ==
    /\ nops' = nops + 1
    /\ last'.kind = "fetch"
    /\ ~IsVersioned(last'.obj)

\* C18: a fetch of an unversioned S3Object without allow_unversioned raises
\* and leaves the cache directory and the checksum index as they were; a file
\* appears at the cache path of an unversioned object only through the
\* download of a fetch with allow_unversioned, and while the file is there
\* its bytes never change and a fetch with allow_unversioned returns it
\* without a download.
C18_UnversionedFetchNeedsFlag ==
    [][/\ (UnversionedFetchEnds /\ ~last'.allow_unversioned)
            => /\ last'.raised /\ ~last'.hit
               /\ UNCHANGED <<files, diskIndex, mem, pc, remote>>
       /\ \A r \in Refs :
            (get_path(r) \in DOMAIN files' /\ get_path(r) \notin DOMAIN files)
               => \E p \in Procs : /\ pc'[p] = "fetch_downloaded"
                                   /\ loc'[p].obj = r
                                   /\ loc'[p].allow_unversioned
                                   /\ files'[get_path(r)].data = Last(remote[r])
       /\ \A r \in Refs :
            get_path(r) \in DOMAIN files
               => /\ get_path(r) \in DOMAIN files'
                     => files'[get_path(r)].data = files[get_path(r)].data
                  /\ (UnversionedFetchEnds /\ last'.obj = r /\ last'.allow_unversioned)
                        => /\ last'.hit /\ ~last'.raised
                           /\ UNCHANGED <<files, diskIndex, mem, pc, remote>>
      ]_vars

\* a fetch without allow_unversioned has been refused for an object that an
\* earlier fetch with allow_unversioned put into the cache
C18_RefusedThoughCached ==
    /\ last.kind = "fetch"
    /\ ~IsVersioned(last.obj)
    /\ ~last.allow_unversioned
    /\ last.raised
    /\ get_path(last.obj) \in DOMAIN files
    /\ files[get_path(last.obj)].ro

---------------------------------------------------------------------------
(* s3.py: S3Object.joinpath and __truediv__ on keys as strings.  A string is
   the sequence of its characters; pathlib's PurePosixPath is modelled by what
   it does to them. *)

\* pieces given to one joinpath call
MaxPieces == 2

\* str.removeprefix
removeprefix(s, prefix) ==
    IF Len(s) >= Len(prefix) /\ SubSeq(s, 1, Len(prefix)) = prefix
    THEN SubSeq(s, Len(prefix) + 1, Len(s))
    ELSE s

\* posixpath.join(a, b): an absolute b replaces a
posix_join(a, b) ==
    IF b # <<>> /\ b[1] = "/" THEN b
    ELSE IF a = <<>> \/ Last(a) = "/" THEN a \o b
    ELSE a \o <<"/">> \o b

RECURSIVE posix_join_all(_, _)
posix_join_all(a, pieces) ==
    IF pieces = <<>> THEN a ELSE posix_join_all(posix_join(a, Head(pieces)), Tail(pieces))

RECURSIVE SplitSlash(_)
\* s.split("/")
SplitSlash(s) ==
    IF \A i \in 1..Len(s) : s[i] # "/" THEN <<s>>
    ELSE LET i == CHOOSE j \in 1..Len(s) : s[j] = "/" /\ \A h \in 1..(j - 1) : s[h] # "/"
         IN  <<SubSeq(s, 1, i - 1)>> \o SplitSlash(SubSeq(s, i + 1, Len(s)))

RECURSIVE JoinSlash(_)
\* "/".join(parts)
JoinSlash(parts) ==
    IF parts = <<>> THEN <<>>
    ELSE IF Len(parts) = 1 THEN parts[1]
    ELSE parts[1] \o <<"/">> \o JoinSlash(Tail(parts))

\* the root PurePosixPath reads off a string: "/" for one leading slash or
\* for three and more, "//" for exactly two
PathRoot(s) ==
    LET n == Cardinality({ i \in 1..Len(s) : \A h \in 1..i : s[h] = "/" })
    IN  IF n = 0 THEN <<>> ELSE IF n = 2 THEN <<"/", "/">> ELSE <<"/">>

\* the parts after the root: empty segments and "." are dropped
PathParts(s) == SelectSeq(SplitSlash(s), LAMBDA x : x # <<>> /\ x # <<".">>)

\* str(PurePosixPath(s))
PathStr(s) ==
    IF PathRoot(s) = <<>> /\ PathParts(s) = <<>> THEN <<".">>
    ELSE PathRoot(s) \o JoinSlash(PathParts(s))

\* S3Object.joinpath(*pieces): the result, or the ValueError for no pieces
joinpath_pieces(self, pieces) ==
    IF pieces = <<>> THEN [raised |-> TRUE, value |-> self]
    ELSE LET sanitized_piece0 == removeprefix(pieces[1], <<"/">>)
             new_key == posix_join_all(self.key, <<sanitized_piece0>> \o Tail(pieces))
         IN  [raised |-> FALSE, value |-> S3Object(self.bucket, PathStr(new_key))]

\* S3Object.__truediv__(suffix)
truediv(self, suffix) == joinpath_pieces(self, <<suffix>>)

\* the keys and the pieces the calls are made with
KeyStrings == { <<"a">>, <<"a", "/", "b">>, <<"a", "/">>, <<"/", "a">>, <<"b">> }
PieceStrings == { <<"c">>, <<"/", "c">>, <<"c", "/">>, <<"/", "c", "/">>,
                  <<"/", "/", "c">>, <<"c", "/", "d">>, <<"/">>, <<>> }
PieceLists == UNION { [1..n -> PieceStrings] : n \in 0..MaxPieces }

\* an S3Object and the pieces of a call about to be made on it
InitJoin ==
    /\ StoreInit
    /\ runState = NoRun
    /\ \E key \in KeyStrings, pieces \in PieceLists :
          nameState = [phase |-> "call", self |-> S3Object(Bucket, key), pieces |-> pieces]

\* s3_object.joinpath(*pieces)
JoinPath ==
    /\ nameState.phase = "call"
    /\ nameState' = [phase |-> "joinpath", self |-> nameState.self, pieces |-> nameState.pieces,
                     out |-> joinpath_pieces(nameState.self, nameState.pieces)]
    /\ UNCHANGED <<storeVars, runVars>>

\* s3_object / suffix
TrueDiv ==
    /\ nameState.phase = "call"
    /\ Len(nameState.pieces) = 1
    /\ nameState' = [phase |-> "truediv", self |-> nameState.self, pieces |-> nameState.pieces,
                     out |-> truediv(nameState.self, nameState.pieces[1])]
    /\ UNCHANGED <<storeVars, runVars>>

NextJoin == JoinPath \/ TrueDiv

SpecJoin == InitJoin /\ [][NextJoin]_vars

RECURSIVE PieceParts(_)
\* the segments of the pieces, in order
PieceParts(pieces) ==
    IF pieces = <<>> THEN <<>> ELSE PathParts(Head(pieces)) \o PieceParts(Tail(pieces))

\* the key followed by the pieces, separated by single slashes, leading and
\* trailing slashes of the pieces dropped
KeyThenPieces(key, pieces) ==
    PathRoot(key) \o JoinSlash(PathParts(key) \o PieceParts(pieces))

\* C19: a join with at least one piece returns an object of the same bucket
\* whose key is the key followed by the pieces separated by single slashes,
\* a leading slash of a piece taken as relative and trailing slashes
\* stripped, and the object joined on keeps its bucket and key.
C19_JoinedKeyIsKeyThenPieces ==
    (nameState.phase \in {"joinpath", "truediv"} /\ nameState.pieces # <<>>)
        => /\ ~nameState.out.raised
           /\ nameState.out.value.bucket = nameState.self.bucket
           /\ nameState.out.value.key = KeyThenPieces(nameState.self.key, nameState.pieces)

\* C21: a run_actions call with graph or list_actions ends in SystemExit with
\* no run routine begun, having drawn the graph when graph is set and listed
\* the actions otherwise.
C21_ShowShortCircuits ==
    (runState.phase \notin {"none", "call"} /\ (runState.graph \/ runState.list_actions))
        => /\ runState.phase = "system_exit"
           /\ runState.log = <<>>
           /\ runState.shown = IF runState.graph THEN "graph" ELSE "list"

\* C29: every entry of the task_dep list of every task the runner builds is
\* the primary output name of one of the actions of the list.
C29_TaskDepsNameTasks ==
    \A k \in 1..Len(runState.tasks) :
        \A d \in Range(runState.tasks[k].task_dep) :
            \E i \in ActionIds : runState.actions[i].outputs[1] = d

\* C30: the string resolve_artifact_name returns carries a version suffix:
\* the name behind it has a version, and the string ends in ":" and that
\* version.
C30_ResolvedNameHasVersion ==
    (nameState.phase = "done" /\ ~nameState.raised)
        => /\ nameState.name.version # None
           /\ Len(nameState.value) >= 2
           /\ nameState.value[Len(nameState.value) - 1] = ":"
           /\ Last(nameState.value) \in {"latest", "v1", "v2"}

\* C22: when a put or a fetch of a versioned object has returned, every cached
\* file being the file of a version and none removed since it was recorded,
\* the index repair() would build from the directory tree answers get_version
\* for every S3Object and checksum as the index the client has built by its
\* calls.
C22_RepairAnswersAsIndex ==
    (/\ last.kind \in {"put", "fetch"} /\ ~last.raised /\ last.proc = Client
     /\ pc[Client] = "idle"
     /\ \A f \in DOMAIN files : \E o \in AllVersioned : f = get_path(o)
     /\ \A i \in 1..Len(mem[Client]) : mem[Client][i].file \in DOMAIN files)
        => \A r \in Refs, d \in Contents :
              get_version(repair(files), r, file_digest(d))
                  = get_version(mem[Client], r, file_digest(d))

\* C26: with the FakeTracker, when declare_output returns, the cached file at
\* the path of each declared file (the path declare_input gives for the
\* artifact) holds the bytes just declared, and at all times the checksum of
\* every index entry is the checksum of the file at its cached path.
C26_FakeCacheHoldsLatest ==
    /\ [](\A i \in 1..Len(mem[FakeProc]) :
            mem[FakeProc][i].file \in DOMAIN files
                => mem[FakeProc][i].sha = file_digest(files[mem[FakeProc][i].file].data))
    /\ [][\A name \in ArtifactNames, l \in LocalFileLists :
            FakeDeclareOutput(name, l, FakeDestination)
                => \A i \in 1..Len(l) :
                      files'[get_path(FakeVersioned(FakeDestination, l[i]))].data = l[i].data
         ]_vars

\* C28: when the index on disk is the one the client's Cache has written, a
\* Cache constructed anew over the same root answers get_version for every
\* object (plain, versioned or fake-versioned) and checksum as the Cache
\* that wrote it.
C28_ReloadedIndexAnswersSame ==
    (pc[Client] = "idle" /\ diskIndex = save_checksums(mem[Client]))
        => \A o \in Refs \cup AllVersioned
                      \cup { FakeVersioned(FakeDestination, l) : l \in LocalFiles },
              d \in Contents :
                get_version(load_checksums(diskIndex), o, file_digest(d))
                    = get_version(mem[Client], o, file_digest(d))

\* C24: in a single process, a step that changes the in-memory index either
\* is a mutating operation completing (an entry appended by
\* finalize_adding_file, or the index rebuilt by repair from the directory
\* tree), after which checksums.json holds exactly the entries of the
\* in-memory index, or is the construction of a Cache, the only step that
\* takes the index from the disk.
C24_DiskIndexFollowsMemory ==
    [][mem'[Client] # mem[Client]
          => \/ /\ \/ /\ Len(mem'[Client]) = Len(mem[Client]) + 1
                      /\ SubSeq(mem'[Client], 1, Len(mem[Client])) = mem[Client]
                   \/ mem'[Client] = repair(files')
                /\ Range(diskIndex') = Range(mem'[Client])
                /\ Len(diskIndex') = Len(mem'[Client])
             \/ /\ pc[Client] = "idle" /\ last' = NoLast
                /\ mem'[Client] = load_checksums(diskIndex)
                /\ UNCHANGED <<diskIndex, files>>
      ]_vars

\* a fetch has completed in a client that held the entry of an earlier put,
\* and the index on disk holds the entries of the client
C24_SavedAfterSecondEntry ==
    /\ last.kind = "fetch" /\ ~last.hit /\ ~last.raised
    /\ Len(mem[Client]) >= 2
    /\ \E i \in 1..Len(mem[Client]) :
          ~IsVersioned(mem[Client][i].obj) /\ Len(mem[Client][i].file) > 3
    /\ Range(diskIndex) = Range(mem[Client])

\* C23: no process that constructs a Cache while another process is inside
\* _save_checksums finds a checksums.json it cannot parse: the load never
\* raises.
C23_LoadNeverRaises ==
    ~(last.kind = "construct" /\ last.raised)

\* C25: the version a put returns after uploading names the remote version
\* that holds the uploaded bytes, and the file cached under that version has
\* the bytes of the remote version, whatever other processes upload meanwhile.
C25_PutReturnsOwnUpload ==
    (last.kind = "put" /\ ~last.raised /\ last.uploaded) =>
        LET returned == VersionedS3Object(last.obj.bucket, last.obj.key, last.ver)
        IN  /\ RemoteData(returned) = last.data
            /\ get_path(returned) \in DOMAIN files =>
                   files[get_path(returned)].data = RemoteData(returned)

\* C27: every path a fetch of a version returns is a finalized file, also
\* after an earlier fetch has failed part-way: the file is there with the
\* bytes of the version, read-only, and recorded in the checksum index.
C27_FetchReturnsFinalizedFile ==
    (last.kind = "fetch" /\ ~last.raised /\ IsVersioned(last.obj)) =>
        /\ last.path \in DOMAIN files
        /\ files[last.path].data = RemoteData(last.obj)
        /\ files[last.path].ro
        /\ \E i \in 1..Len(mem[last.proc]) : mem[last.proc][i].file = last.path

=============================================================================
